---- MODULE Spec2Model ----
(***************************************************************************)
(* RotoTrackID: the two frame-sequential pipelines of the repository,      *)
(*   analyze_video       (src/analyze.py)      tracking + per-id stats     *)
(*   export_alpha_by_id  (src/alpha_export.py) per-id RGBA export          *)
(* Each pipeline is a loop over the decoded frames; the model keeps one    *)
(* program counter and one action per step of the loop body, in the order  *)
(* of the source.  The tracker (YOLO.track), the segmenter (SAM), the      *)
(* video writer constructor and the progress observer are external: what   *)
(* they return, and whether they raise, is chosen nondeterministically.    *)
(***************************************************************************)
EXTENDS Integers, Sequences, FiniteSets, TLC

\* ------------------------------------------------------------------ bounds
MaxFrames == 2      \* frames the decoder yields before EOF
MaxDet == 2         \* detections the tracker reports in one frame
MaxId == 2          \* tracker identities 1..MaxId
MaxW == 2           \* frame width  1..MaxW
MaxH == 2           \* frame height 1..MaxH
MaxPad == 1         \* configured padding 0..MaxPad
Overshoot == 1      \* how far a tracker box may reach outside the frame
MaskBits == 8       \* a mask value is a multiple of 1 / 2^MaskBits
MaxElapsed == 2     \* clock ticks between the start of a run and a report

\* -------------------------------------------------------------- vocabulary
None == <<>>                    \* Python None, as the empty option
Some(x) == <<x>>
Ids == 1..MaxId
ClassIds == {0}                 \* indices into yolo.names; the model follows one class

\* yolo.names[int(cls)]
Names(cls) == IF cls = 0 THEN "person" ELSE "other"

\* All sequences over S of length 0..n
RECURSIVE SeqsUpTo(_, _)
SeqsUpTo(S, n) ==
    IF n = 0 THEN {<<>>}
    ELSE LET shorter == SeqsUpTo(S, n - 1)
         IN  shorter \cup {Append(s, x) : s \in {t \in shorter : Len(t) = n - 1}, x \in S}

\* What results[0].boxes holds after YOLO.track on one frame: the detections
\* in tracker order, each with its id and class.  The empty sequence is the
\* case boxes.id is None (nothing tracked in the frame).
Detection == [id : Ids, cls : ClassIds]
TrackerOutputs == SeqsUpTo(Detection, MaxDet)

VARIABLES
    run,              \* which function is running: "analyze" | "export"
    opened,           \* cap.isOpened() after cv2.VideoCapture(video_path)
    nframes,          \* frames cap.read() yields before ret is False
    total,            \* int(cap.get(CAP_PROP_FRAME_COUNT)), a hint only
    cb_supplied,      \* progress_cb is not None
    pc,               \* position in the function
    fault,            \* exception that ended the run, "none" while running
    ndets,            \* detections YOLO.track reported in the current frame
    events,           \* observer invocations so far, in order
    cb_raised,        \* indices into events of the invocations that raised
    cap_released,     \* cap.release() has run
    track_calls,      \* history: the frames yolo.track was called on, in order
    \* analyze_video
    write_annotated,  \* parameter
    current,          \* frame counter
    writer,           \* None or the cv2.VideoWriter
    writer_attempts,  \* frames at which the writer constructor was called
    writer_released,  \* writer.release() has run
    drawn,            \* boxes drawn on the current frame
    written,          \* indices of the frames appended to the writer, in order
    id_info,          \* id -> [label, frames], only for ids seen
    frames_with,      \* history: id -> number of frames the tracker reported it in
    result,           \* None or the mapping analyze_video returned
    \* export_alpha_by_id
    target_id,        \* parameter
    pad,              \* parameter
    w, h,             \* frame.shape[1], frame.shape[0]
    frame_idx,        \* frame counter
    mask_frame,       \* None or the mask kept for the current frame
    sam_calls,        \* history: segmenter calls made for the current frame
    box,              \* None or the tracker box of the matched detection, as integers
    sam_box,          \* None or the bboxes argument of the segmenter call
    files,            \* out_dir: file name -> mask written into it
    matched,          \* history: frames in which the tracker reported target_id
    masked,           \* history: frames in which the segmenter returned a mask
    first_match,      \* history: None or the position, in the current frame's
                      \* detections, of the first one carrying target_id
    \* one pixel of the RGBA composite
    mask_value,       \* mask_frame at the pixel, in units of 1 / MaskDen
    color_in,         \* one colour channel of frame at the pixel
    rgba,             \* None or the pixel of rgba: its alpha and that channel
    \* one progress report
    elapsed,          \* time.time() - start at the report, in clock ticks
    shown,            \* None or what the report computed: fps, remain, pct
    \* run_tracking_for_colab
    colab_writer,     \* None or the preview.mp4 writer: its size, frames appended
    tracks_saved,     \* tracks.json has been written
    returned          \* None or the pair of paths returned

common == <<run, opened, track_calls, nframes, total, cb_supplied, pc, fault, ndets,
            events, cb_raised, cap_released>>
avars == <<write_annotated, current, writer, writer_attempts, writer_released,
           drawn, written, id_info, frames_with, result>>
evars == <<target_id, pad, w, h, frame_idx, mask_frame, sam_calls, box, sam_box,
           files, matched, masked, first_match>>
cvars == <<mask_value, color_in, rgba>>
gvars == <<elapsed, shown>>
kvars == <<colab_writer, tracks_saved, returned>>
pvars == <<cvars, gvars, kvars>>
vars == <<common, avars, evars, pvars>>
common_but_pc == <<run, opened, track_calls, nframes, total, cb_supplied, fault, ndets,
                   events, cb_raised, cap_released>>

\* -------------------------------------------------------------------- Init
\* The state after the set-up code of either function, before its loop.
TotalHints == {0, MaxFrames - 1, MaxFrames + 1}

\* run_tracking_for_colab is not running.
ColabIdle ==
    /\ colab_writer = None
    /\ tracks_saved = FALSE
    /\ returned = None

\* No pixel is being composed and no report is being computed.
PureIdle ==
    /\ mask_value = 0
    /\ color_in = 0
    /\ rgba = None
    /\ elapsed = 0
    /\ shown = None
    /\ ColabIdle

InitRun(r) ==
    /\ run = r
    /\ opened \in BOOLEAN
    /\ nframes \in (IF opened THEN 0..MaxFrames ELSE {0})
    /\ total \in (IF opened THEN TotalHints ELSE {0})
    /\ cb_supplied \in BOOLEAN
    /\ w = MaxW
    /\ h = MaxH
    /\ write_annotated \in (IF r = "analyze" THEN BOOLEAN ELSE {FALSE})
    /\ target_id \in (IF r = "export" THEN Ids ELSE {1})
    /\ pad = 0
    /\ pc = (IF r = "analyze" THEN "a_read" ELSE "e_read")
    /\ fault = "none"
    /\ ndets = 0
    /\ events = <<>>
    /\ cb_raised = {}
    /\ cap_released = FALSE
    /\ track_calls = <<>>
    /\ current = 0
    /\ writer = None
    /\ writer_attempts = <<>>
    /\ writer_released = FALSE
    /\ drawn = 0
    /\ written = <<>>
    /\ id_info = <<>>
    /\ frames_with = [i \in Ids |-> 0]
    /\ result = None
    /\ frame_idx = 0
    /\ mask_frame = None
    /\ sam_calls = 0
    /\ box = None
    /\ sam_box = None
    /\ files = <<>>
    /\ matched = {}
    /\ masked = {}
    /\ first_match = None
    /\ PureIdle

\* ------------------------------------------------- helpers shared by both
\* Mutant: the first read is taken for a frame without testing ret.
HasFrame_FirstUnchecked(n) == n = 0 \/ (opened /\ n < nframes)

\* cap.isOpened() and cap.read() returning ret = True
HasFrame(n) == opened /\ n < nframes

\* Mutant: the observer is invoked only for frames whose PNG is written.
CallsObserver_OnlyWhenWritten(cb) == cb /\ mask_frame /= None

\* `if progress_cb:`
CallsObserver(cb) == cb

\* Mutant: the call is not wrapped in try/except.
ObserverFault_Propagates(raised) == IF raised THEN "observer" ELSE "none"

\* try: progress_cb(...)  except Exception: pass
ObserverFault(raised) == "none"

\* An exception nothing catches ends the function where it is raised.
Raise(f) ==
    /\ fault' = f
    /\ pc' = "crashed"

IdsOf(dets) == {dets[j].id : j \in DOMAIN dets}

\* The first detection, in tracker order, that passes `int(tid) != target_id`.
FirstMatch(dets, tid) ==
    IF tid \in IdsOf(dets)
    THEN Some(CHOOSE j \in DOMAIN dets :
                 /\ dets[j].id = tid
                 /\ \A i \in 1..(j - 1) : dets[i].id /= tid)
    ELSE None

\* ----------------------------------------------------------- analyze_video
\* current += 1
NextCurrent(c) == c + 1

\* id_info = defaultdict(lambda: {"label": "", "frames": 0})
DefaultRecord == [label |-> "", frames |-> 0]

Lookup(info, tid) == IF tid \in DOMAIN info THEN info[tid] ELSE DefaultRecord

\* Mutant: the mapping is rebuilt for each detection and keeps only its id.
UpdateRecord_Evicts(info, tid, cls) ==
    [i \in {tid} |->
        [label |-> Names(cls),
         frames |-> (IF tid \in DOMAIN info THEN info[tid].frames ELSE 0) + 1]]

\* id_info[tid]["label"] = yolo.names[int(cls)]; id_info[tid]["frames"] += 1
UpdateRecord(info, tid, cls) ==
    [i \in DOMAIN info \cup {tid} |->
        IF i = tid
        THEN [label |-> Names(cls), frames |-> Lookup(info, tid).frames + 1]
        ELSE info[i]]

\* for tid, cls in zip(r.boxes.id, r.boxes.cls): ...
RECURSIVE CollectStats(_, _)
CollectStats(info, dets) ==
    IF dets = <<>> THEN info
    ELSE CollectStats(UpdateRecord(info, Head(dets).id, Head(dets).cls), Tail(dets))

AnalyzeRead ==
    /\ pc = "a_read"
    /\ IF HasFrame(current)
       THEN /\ current' = NextCurrent(current)
            /\ pc' = "a_track"
       ELSE /\ pc' = "a_release"
            /\ UNCHANGED current
    /\ drawn' = 0
    /\ UNCHANGED <<run, opened, track_calls, nframes, total, cb_supplied, fault,
                   ndets, events, cb_raised, cap_released>>
    /\ UNCHANGED <<write_annotated, writer, writer_attempts, writer_released,
                   written, id_info, frames_with, result>>
    /\ UNCHANGED evars
    /\ UNCHANGED pvars

\* if write_annotated and writer is None:
\*     try: writer = cv2.VideoWriter(out_video, fourcc, fps, (w, h))
\*     except Exception: writer = None
\* `ok` is whether the construction went through without raising.
TriesWriter(wa, wr) == wa /\ wr = None

WriterAfter(wa, wr, cur, size, ok) ==
    IF TriesWriter(wa, wr)
    THEN IF ok THEN Some([created_at |-> cur, size |-> size]) ELSE None
    ELSE wr

\* if writer is not None and results: ... for box, tid, cls in zip(boxes, ids, clss)
\* With nothing tracked r0.boxes.id is None: the try block fails on None.cpu(),
\* its except branch leaves ids = None, and zip(boxes, None, clss) raises a
\* TypeError outside any try.
DrawFault(wr, dets) ==
    IF wr /= None /\ dets = <<>> THEN "TypeError" ELSE "none"

\* One cv2.rectangle pair and one cv2.putText per detection.
BoxesDrawn(wr, dets) == IF wr /= None THEN Len(dets) ELSE 0

\* results = yolo.track(frame, persist=True, ...) raises: nothing catches it.
AnalyzeTrackRaises ==
    /\ pc = "a_track"
    /\ track_calls' = Append(track_calls, current)
    /\ Raise("tracker")
    /\ UNCHANGED <<run, opened, nframes, total, cb_supplied, ndets,
                   events, cb_raised, cap_released>>
    /\ UNCHANGED avars
    /\ UNCHANGED evars
    /\ UNCHANGED pvars

\* The body of the loop from yolo.track to the end of the statistics loop:
\* track, create the writer if it is wanted and absent, draw, collect.
AnalyzeFrame ==
    /\ pc = "a_track"
    /\ track_calls' = Append(track_calls, current)
    /\ \E out \in TrackerOutputs,
          ok \in (IF TriesWriter(write_annotated, writer) THEN BOOLEAN ELSE {TRUE}) :
         LET wr == WriterAfter(write_annotated, writer, current, <<w, h>>, ok)
             fl == DrawFault(wr, out)
         IN  /\ ndets' = Len(out)
             /\ frames_with' = [i \in Ids |->
                    IF i \in IdsOf(out) THEN frames_with[i] + 1 ELSE frames_with[i]]
             /\ writer' = wr
             /\ writer_attempts' = IF TriesWriter(write_annotated, writer)
                                   THEN Append(writer_attempts, current)
                                   ELSE writer_attempts
             /\ IF fl /= "none"
                THEN /\ Raise(fl)
                     /\ UNCHANGED <<drawn, id_info>>
                ELSE /\ drawn' = BoxesDrawn(wr, out)
                     /\ id_info' = CollectStats(id_info, out)
                     /\ pc' = "a_report"
                     /\ UNCHANGED fault
    /\ UNCHANGED <<run, opened, nframes, total, cb_supplied,
                   events, cb_raised, cap_released>>
    /\ UNCHANGED <<write_annotated, current, writer_released, written, result>>
    /\ UNCHANGED evars
    /\ UNCHANGED pvars

\* progress_cb(current, total, elapsed, remain)
AnalysisEvent(cur, tot) == [current |-> cur, total |-> tot]

AnalyzeReport ==
    /\ pc = "a_report"
    /\ IF CallsObserver(cb_supplied)
       THEN \E raised \in BOOLEAN :
              /\ events' = Append(events, AnalysisEvent(current, total))
              /\ cb_raised' = IF raised THEN cb_raised \cup {Len(events) + 1}
                                        ELSE cb_raised
              /\ fault' = ObserverFault(raised)
              /\ pc' = IF ObserverFault(raised) = "none" THEN "a_write" ELSE "crashed"
       ELSE /\ pc' = "a_write"
            /\ UNCHANGED <<events, cb_raised, fault>>
    /\ UNCHANGED <<run, opened, track_calls, nframes, total, cb_supplied, ndets, cap_released>>
    /\ UNCHANGED avars
    /\ UNCHANGED evars
    /\ UNCHANGED pvars

\* if writer is not None: writer.write(frame)
AnalyzeWrite ==
    /\ pc = "a_write"
    /\ written' = IF writer /= None
                  THEN Append(written, current)
                  ELSE written
    /\ pc' = "a_read"
    /\ UNCHANGED common_but_pc
    /\ UNCHANGED <<write_annotated, current, writer, writer_attempts,
                   writer_released, drawn, id_info, frames_with, result>>
    /\ UNCHANGED evars
    /\ UNCHANGED pvars

\* cap.release(); if writer is not None: writer.release(); return dict(id_info)
AnalyzeRelease ==
    /\ pc = "a_release"
    /\ cap_released' = TRUE
    /\ writer_released' = (writer /= None)
    /\ result' = Some(id_info)
    /\ pc' = "done"
    /\ UNCHANGED <<run, opened, track_calls, nframes, total, cb_supplied, fault, ndets,
                   events, cb_raised>>
    /\ UNCHANGED <<write_annotated, current, writer, writer_attempts,
                   drawn, written, id_info, frames_with>>
    /\ UNCHANGED evars
    /\ UNCHANGED pvars

NextAnalyze ==
    \/ AnalyzeRead
    \/ AnalyzeTrackRaises
    \/ AnalyzeFrame
    \/ AnalyzeReport
    \/ AnalyzeWrite
    \/ AnalyzeRelease

\* ------------------------------------------------------ export_alpha_by_id
\* frame_idx += 1
NextFrameIdx(i) == i + 1

\* mask_frame = None, at the top of every iteration
FreshMask(m) == None

\* f"{frame_idx:05d}": the decimal digits, zero-padded on the left to NameWidth
NameWidth == 5

RECURSIVE Digits(_)
Digits(n) == IF n < 10 THEN <<n>> ELSE Append(Digits(n \div 10), n % 10)

RECURSIVE ZeroPad(_, _)
ZeroPad(ds, width) == IF Len(ds) >= width THEN ds ELSE ZeroPad(<<0>> \o ds, width)

\* The file name frame_<digits>.png, kept as its digits.
FrameName(idx) == ZeroPad(Digits(idx), NameWidth)

\* The number a file name's digits read as.
RECURSIVE NameIndex(_)
NameIndex(ds) ==
    IF ds = <<>> THEN 0
    ELSE 10 * NameIndex(SubSeq(ds, 1, Len(ds) - 1)) + ds[Len(ds)]

\* Mutant: the files are numbered 1, 2, 3, ... in the order they are written.
OutPath_Renumbered(idx) == FrameName(Cardinality(DOMAIN files) + 1)

\* Mutant: the counter is incremented after the file is named.
OutPath_ZeroBased(idx) == FrameName(idx - 1)

\* out_path = os.path.join(out_dir, f"frame_{frame_idx:05d}.png")
OutPath(idx) == FrameName(idx)

\* cv2.imwrite(out_path, rgba): creates or overwrites the file
WriteFile(fs, name, content) ==
    [n \in DOMAIN fs \cup {name} |-> IF n = name THEN content ELSE fs[n]]

\* What the segmenter does when called: returns a mask, returns no mask
\* (sam_r[0].masks is None), or raises.
SamAnswers == {"mask", "none", "raise"}

\* The segmenter's answers for one frame: one for every detection it is
\* called for (those carrying tid), "none" standing in for the others.
SegmenterAnswers(dets, tid) ==
    {a \in [DOMAIN dets -> SamAnswers] :
        \A j \in DOMAIN dets : dets[j].id /= tid => a[j] = "none"}

\* if results[0].boxes.id is not None:
\*     for box, tid in zip(xyxy, id):
\*         if int(tid) != target_id: continue
\*         ... sam_r = sam(frame, bboxes=[x1, y1, x2, y2])
\*         if sam_r[0].masks is not None: mask_frame = sam_r[0].masks.data[0]
\* answers[j] is the segmenter's answer for detection j.  acc holds mask_frame,
\* the number of segmenter calls, whether a mask came back, and the fault.
\* A mask is named by the frame and the detection it was returned for.
RECURSIVE ScanDetections(_, _, _, _, _, _)
ScanDetections(dets, j, answers, tid, k, acc) ==
    IF j > Len(dets) \/ acc.fault /= "none" THEN acc
    ELSE IF dets[j].id /= tid THEN ScanDetections(dets, j + 1, answers, tid, k, acc)
    ELSE ScanDetections(dets, j + 1, answers, tid, k,
            [mask  |-> IF answers[j] = "mask"
                       THEN Some([frame |-> k, det |-> j]) ELSE acc.mask,
             calls |-> acc.calls + 1,
             got   |-> acc.got \/ answers[j] = "mask",
             fault |-> IF answers[j] = "raise" THEN "segmenter" ELSE "none"])

\* The tracker's xyxy boxes are floats; the model keeps a coordinate in half
\* pixels (c stands for c / 2), so that boxes narrower than a pixel exist.
\* A box has positive width and height, overlaps the frame and reaches at most
\* Overshoot pixels outside it.
Coords(size) == (-2 * Overshoot)..(2 * (size + Overshoot))

TrackerBoxes(fw, fh) ==
    {b \in [x1 : Coords(fw), y1 : Coords(fh), x2 : Coords(fw), y2 : Coords(fh)] :
        /\ b.x1 < b.x2 /\ b.y1 < b.y2
        /\ b.x1 < 2 * fw /\ b.x2 > 0 /\ b.y1 < 2 * fh /\ b.y2 > 0}

\* int(v) on a float: truncation toward zero
IntOf(c) == IF c >= 0 THEN c \div 2 ELSE -((-c) \div 2)

\* x1, y1, x2, y2 = map(int, box)
IntBox(b) == [x1 |-> IntOf(b.x1), y1 |-> IntOf(b.y1),
              x2 |-> IntOf(b.x2), y2 |-> IntOf(b.y2)]

Max(a, b) == IF a >= b THEN a ELSE b
Min(a, b) == IF a <= b THEN a ELSE b

\* Mutant: the lower clamp max(0, .) is missing.
PadClamp_NoFloor(b, p, fw, fh) ==
    [x1 |-> b.x1 - p, y1 |-> b.y1 - p,
     x2 |-> Min(fw, b.x2 + p), y2 |-> Min(fh, b.y2 + p)]

\* x1 = max(0, x1 - pad); y1 = max(0, y1 - pad)
\* x2 = min(w, x2 + pad); y2 = min(h, y2 + pad)
PadClamp(b, p, fw, fh) ==
    [x1 |-> Max(0, b.x1 - p), y1 |-> Max(0, b.y1 - p),
     x2 |-> Min(fw, b.x2 + p), y2 |-> Min(fh, b.y2 + p)]

\* The statements between the match on target_id and the segmenter call, for
\* one matched detection: convert the box, pad it, clamp it, pass it on.
ExportPadBox ==
    /\ pc = "e_pad"
    /\ sam_box' = Some(PadClamp(IntBox(box[1]), pad, w, h))
    /\ pc' = "e_sam"
    /\ UNCHANGED common_but_pc
    /\ UNCHANGED avars
    /\ UNCHANGED <<target_id, pad, w, h, frame_idx, mask_frame, sam_calls, box,
                   files, matched, masked, first_match>>
    /\ UNCHANGED pvars

ExportRead ==
    /\ pc = "e_read"
    /\ IF HasFrame(frame_idx)
       THEN /\ frame_idx' = NextFrameIdx(frame_idx)
            /\ mask_frame' = FreshMask(mask_frame)
            /\ sam_calls' = 0
            /\ pc' = "e_track"
       ELSE /\ pc' = "e_release"
            /\ UNCHANGED <<frame_idx, mask_frame, sam_calls>>
    /\ UNCHANGED common_but_pc
    /\ UNCHANGED avars
    /\ UNCHANGED <<target_id, pad, w, h, box, sam_box, files, matched, masked, first_match>>
    /\ UNCHANGED pvars

\* results = yolo.track(frame, persist=True, ...) raises: nothing catches it.
ExportTrackRaises ==
    /\ pc = "e_track"
    /\ track_calls' = Append(track_calls, frame_idx)
    /\ Raise("tracker")
    /\ UNCHANGED <<run, opened, nframes, total, cb_supplied, ndets,
                   events, cb_raised, cap_released>>
    /\ UNCHANGED avars
    /\ UNCHANGED evars
    /\ UNCHANGED pvars

\* The body of the loop from yolo.track to cv2.imwrite: track, scan the
\* detections for target_id, segment each match, write the PNG if a mask is kept.
ExportFrame ==
    /\ pc = "e_track"
    /\ track_calls' = Append(track_calls, frame_idx)
    /\ \E out \in TrackerOutputs :
       \E answers \in SegmenterAnswers(out, target_id) :
         LET sc == ScanDetections(out, 1, answers, target_id, frame_idx,
                      [mask |-> mask_frame, calls |-> 0, got |-> FALSE,
                       fault |-> "none"])
         IN  /\ ndets' = Len(out)
             /\ matched' = IF target_id \in IdsOf(out)
                           THEN matched \cup {frame_idx} ELSE matched
             /\ masked' = IF sc.got THEN masked \cup {frame_idx} ELSE masked
             /\ first_match' = FirstMatch(out, target_id)
             /\ mask_frame' = sc.mask
             /\ sam_calls' = sc.calls
             /\ IF sc.fault /= "none"
                THEN /\ Raise(sc.fault)
                     /\ UNCHANGED files
                ELSE IF sc.mask /= None
                THEN \E io \in {"ok", "raise"} :
                       IF io = "raise"
                       THEN /\ Raise("imwrite")
                            /\ UNCHANGED files
                       ELSE /\ files' = WriteFile(files, OutPath(frame_idx), sc.mask[1])
                            /\ pc' = "e_report"
                            /\ UNCHANGED fault
                ELSE /\ pc' = "e_report"
                     /\ UNCHANGED <<fault, files>>
    /\ UNCHANGED <<run, opened, nframes, total, cb_supplied,
                   events, cb_raised, cap_released>>
    /\ UNCHANGED avars
    /\ UNCHANGED <<target_id, pad, w, h, frame_idx, box, sam_box>>
    /\ UNCHANGED pvars

\* progress_cb(frame_idx, total)
ExportEvent(idx, tot) == [current |-> idx, total |-> tot]

ExportReport ==
    /\ pc = "e_report"
    /\ IF CallsObserver(cb_supplied)
       THEN \E raised \in BOOLEAN :
              /\ events' = Append(events, ExportEvent(frame_idx, total))
              /\ cb_raised' = IF raised THEN cb_raised \cup {Len(events) + 1}
                                        ELSE cb_raised
              /\ fault' = ObserverFault(raised)
              /\ pc' = IF ObserverFault(raised) = "none" THEN "e_read" ELSE "crashed"
       ELSE /\ pc' = "e_read"
            /\ UNCHANGED <<events, cb_raised, fault>>
    /\ UNCHANGED <<run, opened, track_calls, nframes, total, cb_supplied, ndets, cap_released>>
    /\ UNCHANGED avars
    /\ UNCHANGED evars
    /\ UNCHANGED pvars

\* cap.release()
ExportRelease ==
    /\ pc = "e_release"
    /\ cap_released' = TRUE
    /\ pc' = "done"
    /\ UNCHANGED <<run, opened, track_calls, nframes, total, cb_supplied, fault, ndets,
                   events, cb_raised>>
    /\ UNCHANGED avars
    /\ UNCHANGED evars
    /\ UNCHANGED pvars

NextExport ==
    \/ ExportRead
    \/ ExportTrackRaises
    \/ ExportFrame
    \/ ExportReport
    \/ ExportRelease

\* ------------------------------------------------- the RGBA composite
\* One pixel of the block under `if mask_frame is not None:`.  A mask value is
\* k / MaskDen with MaskDen a power of two, which float32 holds exactly, and so
\* does its product with 255.
MaskDen == 2 ^ MaskBits
MaxColor == 255

\* alpha = (mask_frame * 255).astype(np.uint8): the fraction is cut off
Alpha(k) == ((k * 255) \div MaskDen) % (MaxColor + 1)

\* The pairs (colour, alpha) whose exact product colour * alpha / 255 is an
\* integer q while the float64 product colour * (alpha / 255) is just below q.
FloatShort ==
    {<<85, 147>>, <<170, 147>>, <<51, 155>>, <<102, 155>>, <<153, 155>>,
     <<204, 155>>, <<85, 171>>, <<170, 171>>, <<75, 187>>, <<150, 187>>,
     <<165, 187>>, <<153, 195>>}

\* (rgba[..., :3].astype(float) * (alpha[..., None] / 255)).astype(np.uint8):
\* the float64 product, its fraction cut off
Premultiply(c, a) ==
    (c * a) \div 255 - (IF <<c, a>> \in FloatShort THEN 1 ELSE 0)

ComposePixel ==
    /\ pc = "c_compose"
    /\ rgba' = Some([alpha |-> Alpha(mask_value),
                     color |-> Premultiply(color_in, Alpha(mask_value))])
    /\ pc' = "c_write"
    /\ UNCHANGED common_but_pc
    /\ UNCHANGED avars
    /\ UNCHANGED evars
    /\ UNCHANGED <<mask_value, color_in>>
    /\ UNCHANGED <<gvars, kvars>>

\* ------------------------------------------------- progress arithmetic
\* A Python number n / d as the pair of n and d > 0.  The result of a division
\* by zero, which raises ZeroDivisionError, is kept as a pair with d = 0.
Num(i) == [n |-> i, d |-> 1]

Raised(x) == x.d = 0

Positive(x) == x.d > 0 /\ x.n > 0

\* x / y
Quot(x, y) ==
    IF y.n = 0 THEN [n |-> x.n, d |-> 0]
    ELSE IF y.n > 0 THEN [n |-> x.n * y.d, d |-> x.d * y.n]
    ELSE [n |-> -(x.n * y.d), d |-> -(x.d * y.n)]

\* int(x * 100) for x >= 0: the fraction is cut off.  (The float64 product
\* equals the exact one's integer part for every current below 23.)
IntPercent(x) == IF Raised(x) THEN x ELSE Num((x.n * 100) \div x.d)

\* analyze_video: fps = current / elapsed if elapsed > 0 else 0
Fps(cur, el) == IF el > 0 THEN Quot(Num(cur), Num(el)) ELSE Num(0)

\* analyze_video: remain = (total - current) / fps if fps > 0 else 0
Remain(cur, tot, rate) ==
    IF Positive(rate) THEN Quot(Num(tot - cur), rate) ELSE Num(0)

\* Mutant: the guard on total is missing.
Percent_Unguarded(cur, tot) == IntPercent(Quot(Num(cur), Num(tot)))

\* progress_cb of run_analyze:
\* if total and total > 0: pct = int(cur / total * 100)  else: pct = 0
Percent(cur, tot) ==
    IF tot /= 0 /\ tot > 0 THEN IntPercent(Quot(Num(cur), Num(tot))) ELSE Num(0)

\* export_progress of run_export: the same two branches
ExportPercent(cur, tot) ==
    IF tot /= 0 /\ tot > 0 THEN IntPercent(Quot(Num(cur), Num(tot))) ELSE Num(0)

\* export_progress: fps = (cur / elapsed) if elapsed > 0 and cur > 0 else 0
ExportFps(cur, el) ==
    IF el > 0 /\ cur > 0 THEN Quot(Num(cur), Num(el)) ELSE Num(0)

\* export_progress: remain = (total - cur) / fps if fps > 0 else 0
ExportRemain(cur, tot, rate) ==
    IF Positive(rate) THEN Quot(Num(tot - cur), rate) ELSE Num(0)

\* analyze_video computes elapsed, fps and remain, outside the try block, and
\* calls progress_cb(current, total, elapsed, remain), which computes pct.
AnalyzeProgress ==
    /\ pc = "a_progress"
    /\ LET rate == Fps(current, elapsed)
           rem  == Remain(current, total, rate)
       IN  /\ shown' = Some([fps |-> rate, remain |-> rem,
                             pct |-> Percent(current, total)])
           /\ IF Raised(rate) \/ Raised(rem)
              THEN Raise("ZeroDivisionError")
              ELSE /\ pc' = "p_done"
                   /\ UNCHANGED fault
    /\ UNCHANGED <<run, opened, track_calls, nframes, total, cb_supplied, ndets,
                   events, cb_raised, cap_released>>
    /\ UNCHANGED avars
    /\ UNCHANGED evars
    /\ UNCHANGED <<cvars, kvars>>
    /\ UNCHANGED elapsed

\* export_alpha_by_id calls progress_cb(frame_idx, total) inside try/except;
\* export_progress computes pct, then elapsed, fps and remain.
ExportProgress ==
    /\ pc = "e_progress"
    /\ LET rate == ExportFps(frame_idx, elapsed)
       IN  shown' = Some([fps |-> rate,
                          remain |-> ExportRemain(frame_idx, total, rate),
                          pct |-> ExportPercent(frame_idx, total)])
    /\ pc' = "p_done"
    /\ UNCHANGED common_but_pc
    /\ UNCHANGED avars
    /\ UNCHANGED evars
    /\ UNCHANGED <<cvars, kvars>>
    /\ UNCHANGED elapsed

\* ------------------------------------------------ run_tracking_for_colab
\* def analyze_video(video_path, progress_cb=None, write_annotated=False)
AnalyzeParams == {"video_path", "progress_cb", "write_annotated"}
AnalyzeRequired == {"video_path"}

\* The keywords of the call analyze_video(video_path=..., yolo_model_path=...,
\* bytetrack_cfg=..., writer=..., progress_cb=None)
ColabKeywords ==
    {"video_path", "yolo_model_path", "bytetrack_cfg", "writer", "progress_cb"}

\* Python binds a call's keywords to the parameters of the function: a keyword
\* that names no parameter, or a required parameter left out, raises TypeError
\* before the body runs.
CallFault(keywords, params, required) ==
    IF keywords \subseteq params /\ required \subseteq keywords
    THEN "none" ELSE "TypeError"

\* os.makedirs; the two paths; cap = VideoCapture, fps, w, h from its metadata
\* (0 when the video cannot be opened), cap.release(); writer = VideoWriter(...)
ColabPrepare ==
    /\ pc = "k_prepare"
    /\ colab_writer' = Some([size |-> IF opened THEN <<w, h>> ELSE <<0, 0>>,
                             frames |-> <<>>])
    /\ pc' = "k_call"
    /\ UNCHANGED common_but_pc
    /\ UNCHANGED avars
    /\ UNCHANGED evars
    /\ UNCHANGED <<cvars, gvars, tracks_saved, returned>>

\* analyze_video(...): the call binds its keywords, then the body runs from the
\* top of analyze_video; `return preview_path, tracks_path` follows its return.
ColabCall ==
    /\ pc = "k_call"
    /\ IF CallFault(ColabKeywords, AnalyzeParams, AnalyzeRequired) /= "none"
       THEN Raise(CallFault(ColabKeywords, AnalyzeParams, AnalyzeRequired))
       ELSE /\ pc' = "a_read"
            /\ UNCHANGED fault
    /\ UNCHANGED <<run, opened, track_calls, nframes, total, cb_supplied, ndets,
                   events, cb_raised, cap_released>>
    /\ UNCHANGED avars
    /\ UNCHANGED evars
    /\ UNCHANGED pvars

\* ----------------------------------------------------------- specifications
InitAnalyze == InitRun("analyze")
InitExport == InitRun("export")

SpecAnalyze == InitAnalyze /\ [][NextAnalyze]_vars
SpecExport == InitExport /\ [][NextExport]_vars

\* The padding arithmetic alone, over every frame size, padding and tracker box:
\* the state at the match on target_id in some frame, then the segmenter call.
InitPad ==
    /\ run = "export"
    /\ opened = TRUE
    /\ nframes = 1
    /\ total = 1
    /\ cb_supplied = FALSE
    /\ w \in 1..MaxW
    /\ h \in 1..MaxH
    /\ write_annotated = FALSE
    /\ target_id = 1
    /\ pad \in 0..MaxPad
    /\ pc = "e_pad"
    /\ fault = "none"
    /\ ndets = 1
    /\ events = <<>>
    /\ cb_raised = {}
    /\ cap_released = FALSE
    /\ track_calls = <<1>>
    /\ current = 0
    /\ writer = None
    /\ writer_attempts = <<>>
    /\ writer_released = FALSE
    /\ drawn = 0
    /\ written = <<>>
    /\ id_info = <<>>
    /\ frames_with = [i \in Ids |-> 0]
    /\ result = None
    /\ frame_idx = 1
    /\ mask_frame = None
    /\ sam_calls = 0
    /\ box \in {Some(b) : b \in TrackerBoxes(w, h)}
    /\ sam_box = None
    /\ files = <<>>
    /\ matched = {1}
    /\ masked = {}
    /\ first_match = None
    /\ PureIdle

NextPad == ExportPadBox

SpecPad == InitPad /\ [][NextPad]_vars

\* Every pipeline variable at rest, for the specifications of one computation.
Quiescent(r) ==
    /\ run = r
    /\ fault = "none"
    /\ ndets = 1
    /\ events = <<>>
    /\ cb_raised = {}
    /\ cap_released = FALSE
    /\ track_calls = <<>>
    /\ write_annotated = FALSE
    /\ writer = None
    /\ writer_attempts = <<>>
    /\ writer_released = FALSE
    /\ drawn = 0
    /\ written = <<>>
    /\ id_info = <<>>
    /\ frames_with = [i \in Ids |-> 0]
    /\ result = None
    /\ target_id = 1
    /\ pad = 0
    /\ sam_calls = 0
    /\ box = None
    /\ sam_box = None
    /\ files = <<>>
    /\ matched = {1}
    /\ masked = {1}
    /\ first_match = Some(1)

\* The composite arithmetic alone, over every mask value and colour value of a
\* pixel: the state at `if mask_frame is not None:`, then the composition.
InitComposite ==
    /\ Quiescent("export")
    /\ pc = "c_compose"
    /\ opened = TRUE
    /\ w = MaxW
    /\ h = MaxH
    /\ nframes = 1
    /\ total = 1
    /\ cb_supplied = FALSE
    /\ current = 0
    /\ frame_idx = 1
    /\ mask_frame = Some([frame |-> 1, det |-> 1])
    /\ mask_value \in 0..MaskDen
    /\ color_in \in 0..MaxColor
    /\ rgba = None
    /\ elapsed = 0
    /\ shown = None
    /\ ColabIdle

NextComposite == ComposePixel

SpecComposite == InitComposite /\ [][NextComposite]_vars

\* The progress arithmetic alone, over every frame of every video length,
\* every reported total and every elapsed time: the state at `if progress_cb:`
\* in some iteration of either loop, then the report.
InitProgress ==
    /\ \E r \in {"analyze", "export"} :
         /\ Quiescent(r)
         /\ pc = (IF r = "analyze" THEN "a_progress" ELSE "e_progress")
         /\ nframes \in 1..MaxFrames
         /\ current \in (IF r = "analyze" THEN 1..nframes ELSE {0})
         /\ frame_idx \in (IF r = "export" THEN 1..nframes ELSE {0})
    /\ total \in 0..(MaxFrames + 1)
    /\ cb_supplied = TRUE
    /\ opened = TRUE
    /\ w = MaxW
    /\ h = MaxH
    /\ mask_frame = None
    /\ mask_value = 0
    /\ color_in = 0
    /\ rgba = None
    /\ elapsed \in 0..MaxElapsed
    /\ shown = None
    /\ ColabIdle

NextProgress == AnalyzeProgress \/ ExportProgress

SpecProgress == InitProgress /\ [][NextProgress]_vars

\* run_tracking_for_colab(video_path) with its default arguments, over videos
\* that open or do not, of every length, frame size and reported total.
InitColab ==
    /\ Quiescent("colab")
    /\ pc = "k_prepare"
    /\ opened \in BOOLEAN
    /\ w \in 1..MaxW
    /\ h \in 1..MaxH
    /\ nframes \in (IF opened THEN 0..MaxFrames ELSE {0})
    /\ total \in (IF opened /\ nframes > 0 THEN 0..(MaxFrames + 1) ELSE {0})
    /\ cb_supplied = FALSE
    /\ current = 0
    /\ frame_idx = 0
    /\ mask_frame = None
    /\ mask_value = 0
    /\ color_in = 0
    /\ rgba = None
    /\ elapsed = 0
    /\ shown = None
    /\ ColabIdle

NextColab == ColabPrepare \/ ColabCall

SpecColab == InitColab /\ [][NextColab]_vars

Init == InitAnalyze \/ InitExport
Next == NextAnalyze \/ NextExport
Spec == Init /\ [][Next]_vars

\* Both functions run their statements one after the other on the calling
\* thread, and every external call returns or raises: a step that can be taken
\* is taken.
FairSpec == Spec /\ WF_vars(Next)


\* ------------------------------------------------------------------ claims
Ended == pc \in {"done", "crashed"}

\* The run was ended by an external capability raising, not by the pipeline.
ExternalFault == fault \in {"tracker", "segmenter", "imwrite"}

Currents(ev) == [i \in 1..Len(ev) |-> ev[i].current]
UpTo(n) == [i \in 1..n |-> i]

\* C1: for a video of N decodable frames and a supplied observer, analyze_video
\* invokes the observer exactly N times, with current = 1, 2, ..., N in order,
\* whatever the tracker returns.  (Stated of every run that no external
\* capability ended by raising.)
C1_ProgressSequence ==
    (run = "analyze" /\ cb_supplied /\ Ended /\ ~ExternalFault)
        => Currents(events) = UpTo(nframes)

\* C2: after a full run of analyze_video the frames counter of every id equals
\* the number of distinct frames in which the tracker reported that id.
C2_FramesSeenIsFrameCount ==
    (run = "analyze" /\ pc = "done")
        => \A i \in Ids : Lookup(id_info, i).frames = frames_with[i]

\* C3 (as claimed): the box passed to the segmenter satisfies
\* 0 <= x1 < x2 <= width and 0 <= y1 < y2 <= height.
C3_PaddedBoxNonEmpty ==
    sam_box /= None
        => /\ 0 <= sam_box[1].x1 /\ sam_box[1].x1 < sam_box[1].x2 /\ sam_box[1].x2 <= w
           /\ 0 <= sam_box[1].y1 /\ sam_box[1].y1 < sam_box[1].y2 /\ sam_box[1].y2 <= h

\* C3 (amended): the box passed to the segmenter always has 0 <= x1, x2 <= width,
\* 0 <= y1 and y2 <= height; x1 < x2 holds exactly when the tracker's box, as
\* integers and widened by pad, has positive width and overlaps the frame
\* (x1 - pad < x2 + pad, x1 - pad < width, x2 + pad > 0), and likewise y1 < y2.
\* In particular both hold whenever pad >= 1 and the integer box lies in the frame.
C3_PaddedBoxClamped ==
    sam_box /= None
        => LET s == sam_box[1]
               b == IntBox(box[1])
           IN  /\ 0 <= s.x1 /\ s.x2 <= w
               /\ 0 <= s.y1 /\ s.y2 <= h
               /\ (s.x1 < s.x2) <=>
                    (b.x1 - pad < b.x2 + pad /\ b.x1 - pad < w /\ b.x2 + pad > 0)
               /\ (s.y1 < s.y2) <=>
                    (b.y1 - pad < b.y2 + pad /\ b.y1 - pad < h /\ b.y2 + pad > 0)
               /\ (pad >= 1 /\ 0 <= b.x1 /\ b.x2 <= w /\ 0 <= b.y1 /\ b.y2 <= h)
                    => (s.x1 < s.x2 /\ s.y1 < s.y2)

\* C3 witness: a box reaching outside the frame on every side was padded and
\* clamped to the whole frame.
C3_Witness ==
    /\ pc = "e_sam"
    /\ pad >= 1
    /\ box[1].x1 < 0 /\ box[1].y1 < 0 /\ box[1].x2 > 2 * w /\ box[1].y2 > 2 * h
    /\ sam_box = Some([x1 |-> 0, y1 |-> 0, x2 |-> w, y2 |-> h])

FileIndices == {NameIndex(n) : n \in DOMAIN files}

\* C4: the written file indices are exactly the frame indices k in which the
\* target id was detected and the segmenter returned a mask for it; the file of
\* frame k is named with k and holds a mask of frame k; a frame without match or
\* mask leaves no file.  (Checked in every state of a run no exception ended.)
C4_FilesAreMaskedFrames ==
    (run = "export" /\ pc /= "crashed")
        => /\ DOMAIN files = {FrameName(k) : k \in masked}
           /\ FileIndices = masked
           /\ masked \subseteq matched
           /\ \A n \in DOMAIN files : files[n].frame = NameIndex(n)

\* C4 witness: a finished run in which frame 1 gave a mask and frame 2, where the
\* target was detected too, gave none.
C4_Witness ==
    /\ run = "export" /\ pc = "done"
    /\ masked = {1} /\ 2 \in matched
    /\ DOMAIN files = {<<0, 0, 0, 0, 1>>}

\* C5: in every reachable state of export_alpha_by_id at most N files are
\* written, at most one per frame index, and every file's index is in 1..N.
C5_FilesWithinFrames ==
    run = "export"
        => /\ Cardinality(DOMAIN files) <= nframes
           /\ Cardinality(FileIndices) = Cardinality(DOMAIN files)
           /\ FileIndices \subseteq 1..nframes

\* C5 witness: every frame of the longest video has its file.
C5_Witness ==
    /\ run = "export" /\ pc = "done"
    /\ nframes = MaxFrames
    /\ FileIndices = 1..nframes

\* Frames whose observer invocation is over, at each position of the export loop.
ExportReported ==
    IF pc \in {"e_track", "e_report", "crashed"} THEN frame_idx - 1 ELSE frame_idx

\* C6: export_alpha_by_id emits exactly one progress event (frame_idx, total)
\* per decoded frame, in order 1..N, whether or not the target was detected, a
\* mask returned or a file written; when the target is never detected the
\* output directory stays empty and N events still fire.
C6_OneEventPerFrame ==
    (run = "export" /\ cb_supplied)
        => /\ events = [i \in 1..ExportReported |-> [current |-> i, total |-> total]]
           /\ pc = "done" => Len(events) = nframes
           /\ matched = {} => files = <<>>

\* C6 witness: a finished run of the longest video in which the target id was
\* never detected: no file, and one event per frame.
C6_Witness ==
    /\ run = "export" /\ pc = "done" /\ cb_supplied
    /\ nframes = MaxFrames
    /\ matched = {} /\ files = <<>>
    /\ Len(events) = nframes

\* Frames appended to the writer, at each position of the analysis loop.
AnalyzeAppended ==
    IF pc \in {"a_track", "a_report", "a_write", "crashed"} THEN current - 1 ELSE current

\* C7: an observer failure never propagates and does not change the run: the
\* observer invocations, the frames appended to the writer, the id mapping and
\* the exported files are what the tracker's and segmenter's answers alone
\* determine, whichever invocations raised.
C7_ObserverFailureAbsorbed ==
    /\ fault /= "observer"
    /\ cb_raised \subseteq 1..Len(events)
    /\ (cb_supplied /\ pc = "done") => Currents(events) = UpTo(nframes)
    /\ run = "analyze" =>
         /\ DOMAIN id_info \subseteq {i \in Ids : frames_with[i] > 0}
         /\ pc \notin {"a_track", "crashed"} =>
                DOMAIN id_info = {i \in Ids : frames_with[i] > 0}
         /\ written = IF writer = None THEN <<>>
                      ELSE [i \in 1..(AnalyzeAppended - writer[1].created_at + 1) |->
                               writer[1].created_at + i - 1]
    /\ (run = "export" /\ pc /= "crashed") => FileIndices = masked

\* C7 witness: the observer raised on frame 1 of an annotated analysis; frame 1
\* was appended all the same, frame 2 was processed and reported, the run ended.
C7_Witness ==
    /\ run = "analyze" /\ pc = "done"
    /\ 1 \in cb_raised
    /\ Len(events) = 2
    /\ written = <<1, 2>>
    /\ id_info /= <<>>

\* C8: a frame in which the tracker reports nothing is a no-op: it raises
\* nothing, changes no TrackRecord, writes no file, and the loop goes on to the
\* frame's progress event.
C8_EmptyFrameIsNoOp ==
    [][(pc \in {"a_track", "e_track"} /\ ndets' = 0 /\ fault' /= "tracker")
          => /\ fault' = "none"
             /\ pc' \in {"a_report", "e_report"}
             /\ id_info' = id_info
             /\ files' = files]_vars

\* A writer construction has raised.
WriterFailed ==
    /\ writer_attempts /= <<>>
    /\ writer = None \/ writer[1].created_at > writer_attempts[1]

\* C9: once the writer construction has failed, no further construction is
\* attempted and no frame is ever appended.
C9_NoRetryAfterWriterFailure ==
    WriterFailed => /\ Len(writer_attempts) = 1
                    /\ writer = None
                    /\ written = <<>>

\* C10: the writer is absent before the first decoded frame, is created at that
\* frame and sized to it, and stays absent when annotated output is not
\* requested or no frame is decoded.
C10_WriterCreatedAtFirstFrame ==
    /\ current = 0 => writer = None
    /\ (~write_annotated \/ nframes = 0) => (writer = None /\ written = <<>>)
    /\ writer /= None => (writer[1].created_at = 1 /\ writer[1].size = <<w, h>>)

\* n / d rounded to the nearest integer, a tie to the even one (Python's round)
RoundDiv(n, d) ==
    LET q == n \div d
        r == n % d
    IN  IF 2 * r < d THEN q
        ELSE IF 2 * r > d THEN q + 1
        ELSE IF q % 2 = 0 THEN q ELSE q + 1

\* C11: for every pixel of every RGBA frame produced, alpha equals
\* round(mask_value * 255) exactly and the output colour channel equals
\* round(color_channel_in * alpha / 255).
C11_CompositeRounded ==
    rgba /= None
        => /\ rgba[1].alpha = RoundDiv(mask_value * 255, MaskDen)
           /\ rgba[1].color = RoundDiv(color_in * rgba[1].alpha, 255)

\* C12: when the tracker returns more than one detection carrying the target
\* id in the same frame, the first matching detection in tracker order is the
\* one used: the mask written for the frame is the one the segmenter returned
\* for the first match.
C12_FirstMatchUsed ==
    (run = "export" /\ pc = "e_report" /\ mask_frame /= None)
        => /\ files[OutPath(frame_idx)] = mask_frame[1]
           /\ mask_frame[1].det = first_match[1]

\* C13: when the reported total frame count is 0, the percentage computed by
\* both GUI observers is 0 for every frame 1..N and no division fault is raised,
\* and the pipeline's own remaining-time computation raises no division fault.
C13_ZeroTotalPercentZero ==
    (shown /= None /\ total = 0)
        => /\ shown[1].pct = Num(0)
           /\ ~Raised(shown[1].fps) /\ ~Raised(shown[1].remain)
           /\ fault = "none" /\ pc = "p_done"

\* C13 witness: the last frame of the longest video was reported with total 0
\* and a running clock.
C13_Witness ==
    /\ shown /= None /\ total = 0 /\ elapsed > 0
    /\ nframes = MaxFrames
    /\ current = nframes \/ frame_idx = nframes
    /\ shown[1].pct = Num(0)

\* C19: the percentage the GUI observers compute for a progress event lies in
\* 0..100, for every video length and every reported total, including a total
\* that under-reports the number of decoded frames.
C19_PercentInRange ==
    shown /= None
        => /\ shown[1].pct.d = 1
           /\ shown[1].pct.n \in 0..100

\* C20: the estimated remaining time passed to the analysis observer is never
\* negative, for every frame 1..N and every reported total.
C20_RemainNonNegative ==
    (run = "analyze" /\ shown /= None)
        => /\ ~Raised(shown[1].remain)
           /\ shown[1].remain.n >= 0

\* Nothing has been done to a frame: no tracker, segmenter or observer call, no
\* writer, no record, no file, and no exception.
NothingDone ==
    /\ fault = "none" /\ pc /= "crashed"
    /\ current = 0 /\ frame_idx = 0
    /\ track_calls = <<>> /\ sam_calls = 0 /\ events = <<>>
    /\ writer = None /\ writer_attempts = <<>> /\ written = <<>>
    /\ id_info = <<>> /\ files = <<>>

\* C14: for an unopenable or zero-frame input both loops execute zero
\* iterations and finish without raising: no tracker, segmenter or observer
\* call, no writer, an empty mapping returned, no file written.
C14_EmptyInputIsEmptyRun ==
    /\ [](nframes = 0 => NothingDone)
    /\ (nframes = 0) ~> (pc = "done" /\ cap_released /\ NothingDone)

\* C14 witness: an analysis of an unopenable input, with an observer and
\* annotated output requested, has returned the empty mapping.
C14_Witness ==
    /\ run = "analyze" /\ ~opened /\ cb_supplied /\ write_annotated
    /\ pc = "done" /\ id_info = <<>> /\ NothingDone

\* C15: run_tracking_for_colab, called with a readable video, runs the analysis
\* to completion and returns (preview_path, tracks_path), having produced the
\* annotated preview video and saved the detected ids to tracks_path.
C15_ColabRunsAnalysis ==
    (run = "colab" /\ opened /\ nframes > 0 /\ pc \notin {"k_prepare", "k_call"})
        => /\ fault = "none" /\ pc /= "crashed"
           /\ pc = "done" =>
                /\ returned = Some(<<"preview.mp4", "tracks.json">>)
                /\ tracks_saved
                /\ colab_writer /= None /\ Len(colab_writer[1].frames) = nframes

\* C16: within each iteration the writer runs before the reporter: when the
\* ProgressEvent for frame k is emitted, analyze_video has already appended
\* frame k to the video writer (if there is one), and export_alpha_by_id has
\* already written the PNG for k (if frame k gave a mask).
C16_WriterBeforeReporter ==
    \A i \in 1..Len(events) :
        LET k == events[i].current
        IN  /\ (run = "analyze" /\ writer /= None /\ k >= writer[1].created_at)
                  => \E j \in 1..Len(written) : written[j] = k
            /\ (run = "export" /\ k \in masked)
                  => FrameName(k) \in DOMAIN files

\* C17: for a video of N frames whose tracker and segmenter calls do not fail,
\* each loop reaches Finalize after exactly N iterations: the tracker is called
\* exactly once per decoded frame, in increasing frame order, no frame is
\* decoded or tracked twice, and the loop ends only at the decoder's EOF.
\* (Stated of every run that no external capability ended by raising.)
C17_LoopRunsToEOF ==
    /\ track_calls = UpTo(Len(track_calls))
    /\ Len(track_calls) <= nframes
    /\ (Ended /\ ~ExternalFault)
          => /\ pc = "done"
             /\ track_calls = UpTo(nframes)
             /\ (IF run = "analyze" THEN current ELSE frame_idx) = nframes

\* C18: in analyze_video the set of TrackRecords only grows and no frames
\* counter decreases: a record exists for an id if and only if the id was
\* reported in some frame processed so far, every record has frames >= 1, no
\* record is ever removed, and the mapping returned at EOF is the final set.
C18_RecordsOnlyGrow ==
    /\ [](run = "analyze" =>
            /\ DOMAIN id_info = {i \in Ids : frames_with[i] > 0}
            /\ \A i \in DOMAIN id_info : id_info[i].frames >= 1
            /\ result /= None <=> pc = "done"
            /\ pc = "done" => result = Some(id_info))
    /\ [][/\ DOMAIN id_info \subseteq DOMAIN id_info'
          /\ \A i \in DOMAIN id_info : id_info'[i].frames >= id_info[i].frames]_vars

\* C18 witness: a finished analysis that first saw id 1 alone and then ids 1
\* and 2 returned both records, id 1 with the larger counter.
C18_Witness ==
    /\ run = "analyze" /\ pc = "done"
    /\ DOMAIN id_info = {1, 2}
    /\ id_info[1].frames = 2 /\ id_info[2].frames = 1
    /\ frames_with[1] = 2
    /\ result = Some(id_info)

\* C21: whenever a run of analyze_video or export_alpha_by_id ends, by decoder
\* EOF or by an error propagating from the tracker, the segmenter or a file
\* write, the video capture has been released and, in analyze_video, the
\* annotated writer has been released if and only if it was created.
C21_ResourcesReleasedAtEnd ==
    (Ended /\ (fault = "none" \/ ExternalFault))
        => /\ cap_released
           /\ run = "analyze" => (writer_released <=> writer /= None)

====
